---------------------------- MODULE Spec2Model ----------------------------
(***************************************************************************)
(* Model of the download-preparation functions of                          *)
(* pixiliaphotos/function-download-photos.                                 *)
(*                                                                         *)
(*   variant "main"   : prepareDownload of src/src/main.js (lines 5-256),  *)
(*                      which partitions the photo list first and then     *)
(*                      builds, uploads and records one archive per chunk. *)
(*   variant "stream" : prepareDownload of src/unnamed/part_000            *)
(*                      (lines 174-502), which decides the split photo by  *)
(*                      photo while it is archiving.                       *)
(*   variant "stream3": prepareDownload of src/unnamed/part_003, an        *)
(*                      earlier streaming function without per-photo       *)
(*                      handler.                                           *)
(*                                                                         *)
(* One action is one step of the function between two awaits (or one       *)
(* iteration of a synchronous loop).  Remote calls either return or throw; *)
(* which of the two is a nondeterministic choice of the action.            *)
(* Sizes are megabytes; the code holds them as floats, the model as        *)
(* naturals.                                                               *)
(***************************************************************************)
EXTENDS Integers, Sequences, FiniteSets, TLC

VARIABLES
    variant,          \* which prepareDownload is running
    pc,               \* position of the invocation
    bodyRaw,          \* context.req.bodyRaw: "invalid", "noEventId" or "ok"
    currentUserId,    \* headers['x-appwrite-user-id']
    eventDoc,         \* result of getDocument (NoDoc before it returned)
    store,            \* the photo documents of the event in the database
    allPhotos, offset,
    chunks, currentChunk, size, k,      \* chunking loop (k: next photo)
    i, idx,                             \* chunk loop / photo loop positions
    archive,          \* the open archiver: [entries, finalized]
    currentZipSizeMB, currentZipFileCount, zipIndex, totalProcessed,
    failedPhotos,     \* part_000: the failures list
    createdDownloads,
    bucket,           \* files created in the download bucket
    docs,             \* documents created in the download collection
    calls,            \* every remote call made so far, in order
    photoFailed,      \* history: ids of photos whose own fetch/append threw
    response,         \* what context.res.json was given (NoResponse before)
    now,              \* Date.now(), the clock shared by concurrent invocations
    passed            \* per invocation: the file ids it has passed to createFile

vars == << variant, pc, bodyRaw, currentUserId, eventDoc, store, allPhotos,
           offset, chunks, currentChunk, size, k, i, idx, archive,
           currentZipSizeMB, currentZipFileCount, zipIndex, totalProcessed,
           failedPhotos, createdDownloads, bucket, docs, calls, photoFailed,
           response, now, passed >>

---------------------------------------------------------------------------
(* Bounds of the model                                                     *)

\* longest photo list given to the chunking loop alone (SpecChunk)
MaxChunkInput == 4
\* longest photo list of an event in the full pipeline (Spec)
MaxPhotos == 3
\* full pages of a listing over several pages (SpecList)
MaxPages == 2
\* milliseconds the clock advances while invocations run concurrently (SpecIds)
MaxClock == 2
\* chunks of one of the concurrent invocations (SpecIds)
MaxRunChunks == 2
\* full pages a collection holds beyond the photo limit (SpecListStream)
MaxOverLimit == 2

---------------------------------------------------------------------------
(* Program constants                                                       *)

MAX_CHUNK_MB == 2048
batchSize == 100
MAX_MB == 2000
MIN_FILES_PER_ZIP == 1
PhotoLimit == 10000

---------------------------------------------------------------------------
(* JavaScript values                                                       *)

\* a JS value that is undefined or a number: the file_size attribute
Undefined == [t |-> "undefined", v |-> 0]
Num(n) == [t |-> "number", v |-> n]
\* a non-numeric string, which parseFloat cannot parse
NonNumeric == [t |-> "string", v |-> 0]

\* the number NaN, the result of parseFloat on a non-numeric value
NaN == -1

\* p.file_size || 0 : undefined and 0 are falsy and give 0
OrZero(x) == IF x.t = "undefined" \/ (x.t = "number" /\ x.v = 0) THEN Num(0) ELSE x

\* parseFloat(x)
parseFloat(x) == IF x.t = "number" THEN x.v ELSE NaN

\* a + b and a > b on JS numbers: NaN is absorbing, and compares false
Plus(a, b) == IF a = NaN \/ b = NaN THEN NaN ELSE a + b
Greater(a, b) == a # NaN /\ b # NaN /\ a > b

\* const s = parseFloat(p.file_size || 0)
SizeOf(p) == parseFloat(OrZero(p.file_size))

\* strings are sequences of characters
Blank == " "
RECURSIVE TrimLeft(_)
TrimLeft(s) == IF s # << >> /\ Head(s) = Blank THEN TrimLeft(Tail(s)) ELSE s
RECURSIVE TrimRight(_)
TrimRight(s) ==
    IF s # << >> /\ s[Len(s)] = Blank THEN TrimRight(SubSeq(s, 1, Len(s) - 1)) ELSE s
Trim(s) == TrimRight(TrimLeft(s))

\* a JS value that is undefined or a string: user ids
UndefinedStr == [t |-> "undefined", s |-> << >>]
Str(s) == [t |-> "string", s |-> s]
\* String(x): undefined becomes the string "undefined"
String(x) == IF x.t = "undefined" THEN <<"u","n","d","e","f","i","n","e","d">> ELSE x.s
\* x || '' : undefined and the empty string are falsy
OrEmpty(x) == IF x.t = "undefined" \/ x.s = << >> THEN Str(<< >>) ELSE x
\* !x on such a value
Falsy(x) == x.t = "undefined" \/ x.s = << >>

---------------------------------------------------------------------------
(* Sequences                                                               *)

RECURSIVE Concat(_)
Concat(ss) == IF ss = << >> THEN << >> ELSE Head(ss) \o Concat(Tail(ss))

Ids(ps) == [j \in 1..Len(ps) |-> ps[j].id]

SeqsUpTo(S, n) == UNION { [1..m -> S] : m \in 0..n }

\* the photo documents with the given file_size values, ids 1..n in order
Photos(sizes) == [j \in 1..Len(sizes) |-> [id |-> j, file_size |-> sizes[j]]]

Min(a, b) == IF a < b THEN a ELSE b


---------------------------------------------------------------------------
(* Variable groups                                                         *)

\* the concurrent invocations of SpecIds
Invocations == { 1, 2 }
NoIds == [p \in Invocations |-> << >>]

\* what an invocation never changes: its request, the photo collection, and
\* the clock and file ids followed in SpecIds
reqVars == << variant, bodyRaw, currentUserId, store, now, passed >>
listVars == << eventDoc, allPhotos, offset >>
chunkVars == << chunks, currentChunk, size, k >>
procVars == << i, idx, archive >>
streamVars == << currentZipSizeMB, currentZipFileCount, zipIndex, totalProcessed,
                 failedPhotos >>
outVars == << createdDownloads, bucket, docs >>

NoDoc == [found |-> FALSE, user_id |-> UndefinedStr, event_name |-> UndefinedStr]
NoResponse == [statusCode |-> 0]
NoArchive == [entries |-> << >>, finalized |-> FALSE, open |-> FALSE]
\* archiver('zip', ...) piped into a fresh Writable
NewArchive == [entries |-> << >>, finalized |-> FALSE, open |-> TRUE]

Call(op, arg) == [op |-> op, arg |-> arg]

---------------------------------------------------------------------------
(* main.js: the chunking loop, lines 113-130                               *)

\* size + s > MAX_CHUNK_MB && currentChunk.length > 0
SplitLate(sz, s, cur) == Greater(Plus(sz, s), MAX_CHUNK_MB) /\ Len(cur) > 1
SplitAtBudget(sz, s, cur) == ~ Greater(MAX_CHUNK_MB, Plus(sz, s)) /\ Len(cur) > 0
SplitNeeded(sz, s, cur) == Greater(Plus(sz, s), MAX_CHUNK_MB) /\ Len(cur) > 0

\* chunks.push(currentChunk)
DropChunk(chs, cur) == chs
CloseChunk(chs, cur) == Append(chs, cur)

\* size = 0 after a split, then size += s
KeepSize(sz, s, split) == Plus(sz, s)
ResetAfterAdd(sz, s, split) == IF split THEN 0 ELSE Plus(sz, s)
NextSize(sz, s, split) == Plus(IF split THEN 0 ELSE sz, s)

\* one iteration of  for (const p of allPhotos)
ChunkStep ==
    /\ variant = "main"
    /\ pc = "chunk"
    /\ k <= Len(allPhotos)
    /\ LET p == allPhotos[k]
           s == SizeOf(p)
           split == SplitNeeded(size, s, currentChunk)
       IN  /\ chunks' = IF split THEN CloseChunk(chunks, currentChunk) ELSE chunks
           /\ currentChunk' = Append(IF split THEN << >> ELSE currentChunk, p)
           /\ size' = NextSize(size, s, split)
    /\ k' = k + 1
    /\ UNCHANGED << reqVars, listVars, procVars, streamVars, outVars, pc, calls,
                    photoFailed, response >>

\* after the loop: if (currentChunk.length > 0) chunks.push(currentChunk);
\* const createdDownloads = []; let i = 0
ChunkEnd ==
    /\ variant = "main"
    /\ pc = "chunk"
    /\ k > Len(allPhotos)
    /\ chunks' = IF Len(currentChunk) > 0 THEN CloseChunk(chunks, currentChunk) ELSE chunks
    /\ createdDownloads' = << >>
    /\ i' = 0
    /\ pc' = "loop"
    /\ UNCHANGED << reqVars, listVars, currentChunk, size, k, idx, archive, streamVars,
                    bucket, docs, calls, photoFailed, response >>

---------------------------------------------------------------------------
(* The chunking loop alone, over every bounded photo list                  *)

Owner == <<"u", "1">>
ChunkSizes == { Undefined, Num(0), Num(100), Num(1000), Num(1200), Num(2048), Num(5000) }

\* the state at line 113: the owner's request has listed a non-empty event
InitChunk ==
    /\ variant = "main"
    /\ pc = "chunk"
    /\ bodyRaw = "ok"
    /\ currentUserId = Str(Owner)
    /\ eventDoc = [found |-> TRUE, user_id |-> Str(Owner), event_name |-> UndefinedStr]
    /\ store \in { Photos(sz) : sz \in SeqsUpTo(ChunkSizes, MaxChunkInput) \ { << >> } }
    /\ allPhotos = store
    /\ offset = Len(store)
    /\ chunks = << >> /\ currentChunk = << >> /\ size = 0 /\ k = 1
    /\ i = 0 /\ idx = 0 /\ archive = NoArchive
    /\ currentZipSizeMB = 0 /\ currentZipFileCount = 0 /\ zipIndex = 0
    /\ totalProcessed = 0 /\ failedPhotos = << >>
    /\ createdDownloads = << >> /\ bucket = << >> /\ docs = << >>
    /\ calls = << Call("getDocument", 0), Call("listDocuments", 0) >>
    /\ photoFailed = {}
    /\ response = NoResponse
    /\ now = 0 /\ passed = NoIds

NextChunk == ChunkStep \/ ChunkEnd

SpecChunk == InitChunk /\ [][NextChunk]_vars

\* the chunking loop over lists in which a file_size may be a string that
\* parseFloat cannot parse
NaNSizes == { Undefined, Num(1200), Num(5000), NonNumeric }

InitChunkNaN ==
    /\ variant = "main"
    /\ pc = "chunk"
    /\ bodyRaw = "ok"
    /\ currentUserId = Str(Owner)
    /\ eventDoc = [found |-> TRUE, user_id |-> Str(Owner), event_name |-> UndefinedStr]
    /\ store \in { Photos(sz) : sz \in SeqsUpTo(NaNSizes, MaxChunkInput) \ { << >> } }
    /\ allPhotos = store
    /\ offset = Len(store)
    /\ chunks = << >> /\ currentChunk = << >> /\ size = 0 /\ k = 1
    /\ i = 0 /\ idx = 0 /\ archive = NoArchive
    /\ currentZipSizeMB = 0 /\ currentZipFileCount = 0 /\ zipIndex = 0
    /\ totalProcessed = 0 /\ failedPhotos = << >>
    /\ createdDownloads = << >> /\ bucket = << >> /\ docs = << >>
    /\ calls = << Call("getDocument", 0), Call("listDocuments", 0) >>
    /\ photoFailed = {}
    /\ response = NoResponse
    /\ now = 0 /\ passed = NoIds

SpecChunkNaN == InitChunkNaN /\ [][NextChunk]_vars

---------------------------------------------------------------------------
(* Inputs of one invocation                                                *)

BodyKinds == { "invalid", "noEventId", "ok" }
HeaderUserIds == { UndefinedStr, Str(Owner), Str(<<"u", "2">>) }
\* user_id of the event document: missing, the owner's, the owner's padded
EventUserIds == { UndefinedStr, Str(Owner), Str(<<"u", "1", " ">>) }
PipelineSizes == { Undefined, Num(1200), Num(5000) }
\* event_name of the event document: missing, or a name with a blank in it
EventNames == { UndefinedStr, Str(<<"e", " ">>) }

Init ==
    /\ variant \in { "main", "stream" }
    /\ pc = "parse"
    /\ bodyRaw \in BodyKinds
    /\ currentUserId \in HeaderUserIds
    /\ eventDoc = NoDoc
    /\ store \in { Photos(sz) : sz \in SeqsUpTo(PipelineSizes, MaxPhotos) }
    /\ allPhotos = << >>
    /\ offset = 0
    /\ chunks = << >> /\ currentChunk = << >> /\ size = 0 /\ k = 1
    /\ i = 0 /\ idx = 0 /\ archive = NoArchive
    /\ currentZipSizeMB = 0 /\ currentZipFileCount = 0 /\ zipIndex = 0
    /\ totalProcessed = 0 /\ failedPhotos = << >>
    /\ createdDownloads = << >> /\ bucket = << >> /\ docs = << >>
    /\ calls = << >>
    /\ photoFailed = {}
    /\ response = NoResponse
    /\ now = 0 /\ passed = NoIds

---------------------------------------------------------------------------
(* Helpers shared by the two functions                                     *)

\* return context.res.json(r)
RespondNoReturn(r) == response' = r /\ pc' = pc
Respond(r) == response' = r /\ pc' = "done"
Continue(next) == response' = response /\ pc' = next

\* a !== b for a string a and a header value b (a string or undefined)
NotEqualIfPresent(a, b) == b.t = "string" /\ b.s # a
StrictNotEqual(a, b) == b.t # "string" \/ b.s # a

\* listDocuments with Query.limit(lim), Query.offset(off)
Page(st, off, lim) == SubSeq(st, off + 1, Min(off + lim, Len(st)))

\* archiver: finalize() on an archive that is already finalizing emits 'error'
\* (FINALIZING) and append() on it emits 'error' (QUEUECLOSED); the 'error'
\* handler registered on the archive rethrows
FinalizeOutcomes(a) == IF a.finalized THEN { "throws" } ELSE { "ok", "throws" }
AppendOutcomes(a) == IF a.finalized THEN { "append" } ELSE { "ok", "append" }

\* Permission.x(Role.user(currentUserId))
Permission(what, user) == << what, user >>

---------------------------------------------------------------------------
(* main.js, prepareDownload, lines 5-256                                   *)

\* String(eventDoc.user_id || '').trim()
EventUserId(u) == Trim(String(OrEmpty(u)))

\* the outer catch: return context.res.json({ statusCode: 500, ... })
Catch404(err) == Respond([statusCode |-> 404, error |-> err])
Catch500(err) == Respond([statusCode |-> 500, error |-> err])

\* Parse without the  if (!eventId)  test of line 21
ParseNoEventIdCheck ==
    /\ variant = "main"
    /\ pc = "parse"
    /\ IF bodyRaw = "invalid"
       THEN Respond([statusCode |-> 400, error |-> "Invalid JSON in request body"])
       ELSE Continue("getEvent")
    /\ UNCHANGED << reqVars, listVars, chunkVars, procVars, streamVars, outVars,
                    calls, photoFailed >>

\* lines 11-28
Parse ==
    /\ variant = "main"
    /\ pc = "parse"
    /\ IF bodyRaw = "invalid"
       THEN Respond([statusCode |-> 400, error |-> "Invalid JSON in request body"])
       ELSE IF bodyRaw = "noEventId"
            THEN Respond([statusCode |-> 400, error |-> "Missing eventId"])
            ELSE Continue("getEvent")
    /\ UNCHANGED << reqVars, listVars, chunkVars, procVars, streamVars, outVars,
                    calls, photoFailed >>

\* lines 59-83
GetEvent ==
    /\ variant = "main"
    /\ pc = "getEvent"
    /\ calls' = Append(calls, Call("getDocument", 0))
    /\ \/ /\ Catch500("getDocument")
          /\ UNCHANGED eventDoc
       \/ \E u \in EventUserIds, name \in EventNames :
            /\ eventDoc' = [found |-> TRUE, user_id |-> u, event_name |-> name]
            /\ IF StrictNotEqual(EventUserId(u), currentUserId)
               THEN Respond([statusCode |-> 403,
                             error |-> "Forbidden - you do not own this event"])
               ELSE Continue("list")
    /\ allPhotos' = << >>
    /\ offset' = 0
    /\ UNCHANGED << reqVars, chunkVars, procVars, streamVars, outVars, photoFailed >>

\* the listing loop goes on after a page: neither of the breaks of lines 95
\* (empty page) and 102 (page shorter than batchSize) is taken
MoreUnlessEmpty(page) == Len(page) # 0
MorePages(page) == Len(page) # 0 /\ ~ (Len(page) < batchSize)

\* if (allPhotos.length === 0), line 104
NeverEmpty(got) == FALSE
NoPhotos(got) == Len(got) = 0

\* one iteration of the listing loop, lines 87-116
ListPage ==
    /\ variant = "main"
    /\ pc = "list"
    /\ calls' = Append(calls, Call("listDocuments", offset))
    /\ \/ /\ Catch500("listDocuments")
          /\ UNCHANGED << allPhotos, offset, chunkVars >>
       \/ LET page == Page(store, offset, batchSize)
              got == allPhotos \o page
          IN  /\ allPhotos' = got
              /\ offset' = offset + Len(page)
              /\ IF MorePages(page)
                 THEN Continue("list") /\ UNCHANGED chunkVars
                 ELSE IF NoPhotos(got)
                      THEN /\ Respond([statusCode |-> 404, error |-> "No photos found"])
                           /\ UNCHANGED chunkVars
                      ELSE /\ Continue("chunk")
                           /\ chunks' = << >>
                           /\ currentChunk' = << >>
                           /\ size' = 0
                           /\ k' = 1
    /\ UNCHANGED << reqVars, eventDoc, procVars, streamVars, outVars, photoFailed >>

\* head of  for (let i = 0; i < chunks.length; i++), lines 139-163
BeginChunk ==
    /\ variant = "main"
    /\ pc = "loop"
    /\ i < Len(chunks)
    /\ archive' = NewArchive
    /\ idx' = 1
    /\ Continue("fetch")
    /\ UNCHANGED << reqVars, listVars, chunkVars, i, streamVars, outVars, calls,
                    photoFailed >>

\* lines 245-250
Respond200 ==
    /\ variant = "main"
    /\ pc = "loop"
    /\ ~ (i < Len(chunks))
    /\ Respond([statusCode |-> 200, totalChunks |-> Len(chunks),
                downloadIds |-> createdDownloads])
    /\ UNCHANGED << reqVars, listVars, chunkVars, procVars, streamVars, outVars,
                    calls, photoFailed >>

\* where the loop over chunk.entries() goes after photo idx: to the next
\* photo, or past the loop to archive.finalize() (line 184)
AfterPhotoEarly(at, chunk) == IF at + 1 >= Len(chunk) THEN "finalize" ELSE "fetch"
AfterPhoto(at, chunk) == IF at + 1 > Len(chunk) THEN "finalize" ELSE "fetch"

\* FetchPhoto without the try/catch of lines 167 and 178
FetchPhotoUncaught ==
    /\ variant = "main"
    /\ pc = "fetch"
    /\ LET chunk == chunks[i + 1]
           photo == chunk[idx]
       IN  /\ calls' = Append(calls, Call("getFileDownload", photo.id))
           /\ \E outcome \in { "getFileDownload" } \cup AppendOutcomes(archive) :
                IF outcome = "ok"
                THEN /\ archive' = [archive EXCEPT !.entries = Append(@, photo.id)]
                     /\ photoFailed' = photoFailed
                     /\ idx' = idx + 1
                     /\ Continue(AfterPhoto(idx, chunk))
                ELSE /\ archive' = archive
                     /\ photoFailed' = photoFailed \cup { [id |-> photo.id, error |-> outcome] }
                     /\ idx' = idx
                     /\ Catch500(outcome)
    /\ UNCHANGED << reqVars, listVars, chunkVars, i, streamVars, outVars >>

\* one iteration of  for (const [idx, photo] of chunk.entries()), lines 166-181:
\* whatever getFileDownload or archive.append throws is caught and logged
FetchPhoto ==
    /\ variant = "main"
    /\ pc = "fetch"
    /\ LET chunk == chunks[i + 1]
           photo == chunk[idx]
       IN  /\ calls' = Append(calls, Call("getFileDownload", photo.id))
           /\ \E outcome \in { "getFileDownload" } \cup AppendOutcomes(archive) :
                IF outcome = "ok"
                THEN /\ archive' = [archive EXCEPT !.entries = Append(@, photo.id)]
                     /\ photoFailed' = photoFailed
                ELSE /\ archive' = archive
                     /\ photoFailed' = photoFailed \cup { [id |-> photo.id, error |-> outcome] }
           /\ idx' = idx + 1
           /\ Continue(AfterPhoto(idx, chunk))
    /\ UNCHANGED << reqVars, listVars, chunkVars, i, streamVars, outVars >>

\* lines 184-190
Finalize ==
    /\ variant = "main"
    /\ pc = "finalize"
    /\ archive' = [archive EXCEPT !.finalized = TRUE]
    /\ \E outcome \in FinalizeOutcomes(archive) :
            IF outcome = "ok" THEN Continue("upload") ELSE Catch500("finalize")
    /\ UNCHANGED << reqVars, listVars, chunkVars, i, idx, streamVars, outVars, calls,
                    photoFailed >>

\* `download_${Date.now()}_${i}` (the timestamp is not modelled)
DownloadFileId(n) == << "download", n >>

\* eventDoc.event_name || 'photos'
OrPhotos(x) == IF Falsy(x) THEN <<"p", "h", "o", "t", "o", "s">> ELSE x.s

\* chunks.length > 1 ? `${base}_part_${i + 1}.zip` : `${base}.zip`
\* (a file name is its base and its suffix before ".zip")
ZipFilenameFromSecond(name, total, n) ==
    [base |-> OrPhotos(name), suffix |-> IF n > 0 THEN << "_part_", n + 1 >> ELSE << >>]
ZipFilename(name, total, n) ==
    [base |-> OrPhotos(name), suffix |-> IF total > 1 THEN << "_part_", n + 1 >> ELSE << >>]

\* lines 195-220
Upload ==
    /\ variant = "main"
    /\ pc = "upload"
    /\ calls' = Append(calls, Call("createFile", i + 1))
    /\ \/ /\ Catch500("createFile")
          /\ UNCHANGED bucket
       \/ /\ bucket' = Append(bucket,
                [id |-> DownloadFileId(i),
                 name |-> ZipFilename(eventDoc.event_name, Len(chunks), i),
                 entries |-> archive.entries,
                 permissions |-> { Permission("read", currentUserId),
                                   Permission("delete", currentUserId) }])
          /\ Continue("record")
    /\ UNCHANGED << reqVars, listVars, chunkVars, procVars, streamVars,
                    createdDownloads, docs, photoFailed >>

\* uploadedFile.$id, the id of the file createFile has just returned (line 229)
FirstFileId(b) == b[1].id
UploadedFileId(b) == b[Len(b)].id

\* chunk_index: i + 1, line 236
ChunkIndexFromZero(n) == n
ChunkIndex(n) == n + 1

\* createdDownloads.push(downloadDoc.$id), line 241
PushDownloadFirst(cd, id) == << id >> \o cd
PushDownload(cd, id) == Append(cd, id)

\* Record with a catch that deletes the file just uploaded
RecordCleanup ==
    /\ variant = "main"
    /\ pc = "record"
    /\ calls' = Append(calls, Call("createDocument", i + 1))
    /\ \/ /\ Catch500("createDocument")
          /\ bucket' = SubSeq(bucket, 1, Len(bucket) - 1)
          /\ UNCHANGED << docs, createdDownloads, i >>
       \/ /\ docs' = Append(docs,
                [id |-> Len(docs) + 1,
                 user_id |-> currentUserId,
                 file_id |-> UploadedFileId(bucket),
                 file_name |-> ZipFilename(eventDoc.event_name, Len(chunks), i),
                 photo_count |-> Len(chunks[i + 1]),
                 chunk_index |-> ChunkIndex(i),
                 total_chunks |-> Len(chunks),
                 permissions |-> {}])
          /\ createdDownloads' = PushDownload(createdDownloads, Len(docs) + 1)
          /\ i' = i + 1
          /\ bucket' = bucket
          /\ Continue("loop")
    /\ UNCHANGED << reqVars, listVars, chunkVars, idx, archive, streamVars,
                    photoFailed >>

\* lines 225-243
Record ==
    /\ variant = "main"
    /\ pc = "record"
    /\ calls' = Append(calls, Call("createDocument", i + 1))
    /\ \/ /\ Catch500("createDocument")
          /\ UNCHANGED << docs, createdDownloads, i >>
       \/ /\ docs' = Append(docs,
                [id |-> Len(docs) + 1,
                 user_id |-> currentUserId,
                 file_id |-> UploadedFileId(bucket),
                 file_name |-> ZipFilename(eventDoc.event_name, Len(chunks), i),
                 photo_count |-> Len(chunks[i + 1]),
                 chunk_index |-> ChunkIndex(i),
                 total_chunks |-> Len(chunks),
                 permissions |-> {}])
          /\ createdDownloads' = PushDownload(createdDownloads, Len(docs) + 1)
          /\ i' = i + 1
          /\ Continue("loop")
    /\ UNCHANGED << reqVars, listVars, chunkVars, idx, archive, streamVars, bucket,
                    photoFailed >>

NextMain ==
    \/ Parse
    \/ GetEvent
    \/ ListPage
    \/ ChunkStep
    \/ ChunkEnd
    \/ BeginChunk
    \/ FetchPhoto
    \/ Finalize
    \/ Upload
    \/ Record
    \/ Respond200

---------------------------------------------------------------------------
(* part_000, prepareDownload, lines 174-502                                *)

\* lines 180-214
ParseStream ==
    /\ variant = "stream"
    /\ pc = "parse"
    /\ IF bodyRaw = "invalid"
       THEN Respond([statusCode |-> 400, error |-> "Invalid JSON"])
       ELSE IF bodyRaw = "noEventId"
            THEN Respond([statusCode |-> 400, error |-> "Missing eventId"])
            ELSE IF Falsy(currentUserId)
                 THEN Respond([statusCode |-> 401,
                               error |-> "Unauthorized - User not logged in"])
                 ELSE Continue("getEvent")
    /\ UNCHANGED << reqVars, listVars, chunkVars, procVars, streamVars, outVars,
                    calls, photoFailed >>

\* the outer catch, lines 491-500
CatchStream500(err) ==
    Respond([statusCode |-> 500, error |-> "Internal server error", message |-> err])

\* lines 220-235
GetEventStream ==
    /\ variant = "stream"
    /\ pc = "getEvent"
    /\ calls' = Append(calls, Call("getDocument", 0))
    /\ \/ /\ CatchStream500("getDocument")
          /\ UNCHANGED eventDoc
       \/ \E u \in EventUserIds, name \in EventNames :
            /\ eventDoc' = [found |-> TRUE, user_id |-> u, event_name |-> name]
            /\ IF String(u) # String(currentUserId)
               THEN Respond([statusCode |-> 403,
                             error |-> "Forbidden - you do not own this event."])
               ELSE Continue("list")
    /\ allPhotos' = << >>
    /\ offset' = 0
    /\ UNCHANGED << reqVars, chunkVars, procVars, streamVars, outVars, photoFailed >>

\* one iteration of the listing loop, lines 237-278, and startZip() of line 406
ListPageStream ==
    /\ variant = "stream"
    /\ pc = "list"
    /\ calls' = Append(calls, Call("listDocuments", offset))
    /\ \/ /\ CatchStream500("listDocuments")
          /\ UNCHANGED << allPhotos, offset, i, archive, streamVars, createdDownloads >>
       \/ LET page == Page(store, offset, batchSize)
              got == allPhotos \o page
          IN  /\ allPhotos' = got
              /\ offset' = offset + Len(page)
              /\ IF Len(page) # 0 /\ ~ (offset + Len(page) > PhotoLimit)
                 THEN /\ Continue("list")
                      /\ UNCHANGED << i, archive, streamVars, createdDownloads >>
                 ELSE IF Len(got) = 0
                      THEN /\ Respond([statusCode |-> 404,
                                       error |-> "No photos found for this event"])
                           /\ UNCHANGED << i, archive, streamVars, createdDownloads >>
                      ELSE /\ Continue("photo")
                           /\ zipIndex' = 1
                           /\ totalProcessed' = 0
                           /\ createdDownloads' = << >>
                           /\ failedPhotos' = << >>
                           /\ archive' = NewArchive
                           /\ currentZipSizeMB' = 0
                           /\ currentZipFileCount' = 0
                           /\ i' = 0
    /\ UNCHANGED << reqVars, eventDoc, chunkVars, idx, bucket, docs, photoFailed >>

\* currentZipSizeMB + sizeMB > MAX_MB && currentZipFileCount >= MIN_FILES_PER_ZIP
SplitWhenOver(sz, s, n) == Greater(Plus(sz, s), MAX_MB)
SplitNeededStream(sz, s, n) ==
    Greater(Plus(sz, s), MAX_MB) /\ n >= MIN_FILES_PER_ZIP

\* head of one iteration of the photo loop, lines 413-430
PhotoStart ==
    /\ variant = "stream"
    /\ pc = "photo"
    /\ i < Len(allPhotos)
    /\ totalProcessed' = totalProcessed + 1
    /\ IF SplitNeededStream(currentZipSizeMB, SizeOf(allPhotos[i + 1]),
                            currentZipFileCount)
       THEN Continue("zipFinalize")
       ELSE Continue("download")
    /\ UNCHANGED << reqVars, listVars, chunkVars, procVars, currentZipSizeMB,
                    currentZipFileCount, zipIndex, failedPhotos, outVars, calls,
                    photoFailed >>

\* failedPhotos.push({ id: photo.$id, error: err.message })
DropFailure(fs, id, err) == fs
RecordFailure(fs, id, err) == Append(fs, [id |-> id, error |-> err])

\* lines 433-460: download and append the photo; the catch of line 452
DownloadPhoto ==
    /\ variant = "stream"
    /\ pc = "download"
    /\ LET photo == allPhotos[i + 1]
       IN  /\ calls' = Append(calls, Call("getFileDownload", photo.id))
           /\ \E outcome \in { "getFileDownload" } \cup AppendOutcomes(archive) :
                IF outcome = "ok"
                THEN /\ archive' = [archive EXCEPT !.entries = Append(@, photo.id)]
                     /\ currentZipSizeMB' = Plus(currentZipSizeMB, SizeOf(photo))
                     /\ currentZipFileCount' = currentZipFileCount + 1
                     /\ UNCHANGED << failedPhotos, photoFailed >>
                ELSE /\ failedPhotos' = RecordFailure(failedPhotos, photo.id, outcome)
                     /\ photoFailed' = photoFailed \cup { [id |-> photo.id, error |-> outcome] }
                     /\ UNCHANGED << archive, currentZipSizeMB, currentZipFileCount >>
    /\ i' = i + 1
    /\ Continue("photo")
    /\ UNCHANGED << reqVars, listVars, chunkVars, idx, zipIndex, totalProcessed,
                    outVars >>

\* responseData.summary, lines 472-478
SummaryAllProcessed(all, processed, failed, made) ==
    [totalPhotos |-> Len(all),
     processedPhotos |-> processed,
     failedPhotos |-> Len(failed),
     totalChunks |-> Len(made)]
Summary(all, processed, failed, made) ==
    [totalPhotos |-> Len(all),
     processedPhotos |-> processed - Len(failed),
     failedPhotos |-> Len(failed),
     totalChunks |-> Len(made)]

\* after the loop, lines 463-489
LoopExit ==
    /\ variant = "stream"
    /\ pc = "photo"
    /\ ~ (i < Len(allPhotos))
    /\ IF currentZipFileCount > 0
       THEN Continue("endFinalize")
       ELSE Respond([statusCode |-> 200,
                     summary |-> Summary(allPhotos, totalProcessed, failedPhotos,
                                         createdDownloads),
                     downloads |-> createdDownloads,
                     failures |-> failedPhotos])
    /\ UNCHANGED << reqVars, listVars, chunkVars, procVars, streamVars, outVars,
                    calls, photoFailed >>

\* where finalizeAndUploadZip was called from: inside the photo loop (line
\* 428) or after it (line 464); the positions of its three awaits
InLoop == [finalize |-> "zipFinalize", upload |-> "zipUpload", record |-> "zipRecord"]
AtEnd == [finalize |-> "endFinalize", upload |-> "endUpload", record |-> "endRecord"]

\* finalizeAndUploadZip throws: inside the loop the catch of line 452 takes it
\* and the loop goes on with the next photo; after the loop the outer catch
ZipThrowsOuter(ctx, err) ==
    /\ CatchStream500(err)
    /\ UNCHANGED << failedPhotos, i >>
ZipThrows(ctx, err) ==
    IF ctx = InLoop
    THEN /\ failedPhotos' = RecordFailure(failedPhotos, allPhotos[i + 1].id, err)
         /\ i' = i + 1
         /\ Continue("photo")
    ELSE /\ CatchStream500(err)
         /\ UNCHANGED << failedPhotos, i >>

\* finalizeAndUploadZip, lines 322-328
FinalizeZip(ctx) ==
    /\ variant = "stream"
    /\ pc = ctx.finalize
    /\ archive' = [archive EXCEPT !.finalized = TRUE]
    /\ \E outcome \in FinalizeOutcomes(archive) :
            IF outcome = "ok"
            THEN Continue(ctx.upload) /\ UNCHANGED << failedPhotos, i >>
            ELSE ZipThrows(ctx, "finalize")
    /\ UNCHANGED << reqVars, listVars, chunkVars, idx, currentZipSizeMB,
                    currentZipFileCount, zipIndex, totalProcessed, outVars, calls,
                    photoFailed >>

\* `dl_${eventId}_${Date.now()}_${zipIndex}` (the timestamp is not modelled)
StreamFileId(n) == << "dl", n >>

\* the characters matched by [a-zA-Z0-9_-]
SafeChars ==
    { "a", "b", "c", "d", "e", "f", "g", "h", "i", "j", "k", "l", "m", "n", "o", "p",
      "q", "r", "s", "t", "u", "v", "w", "x", "y", "z",
      "A", "B", "C", "D", "E", "F", "G", "H", "I", "J", "K", "L", "M", "N", "O", "P",
      "Q", "R", "S", "T", "U", "V", "W", "X", "Y", "Z",
      "0", "1", "2", "3", "4", "5", "6", "7", "8", "9", "_", "-" }

\* .replace(/[^a-zA-Z0-9_-]/g, "_").substring(0, 50)
Sanitize(s) == [j \in 1..Min(Len(s), 50) |-> IF s[j] \in SafeChars THEN s[j] ELSE "_"]

\* zipIndex > 1 ? `${eventName}_part${zipIndex}.zip` : `${eventName}.zip`
\* (a file name is its base and its suffix before ".zip")
StreamZipFilename(name, n) ==
    [base |-> Sanitize(OrPhotos(name)),
     suffix |-> IF n > 1 THEN << "_part", n >> ELSE << >>]

OwnerPermissions(user) ==
    { Permission("read", user), Permission("update", user), Permission("delete", user) }

\* finalizeAndUploadZip, lines 330-366
UploadZip(ctx) ==
    /\ variant = "stream"
    /\ pc = ctx.upload
    /\ calls' = Append(calls, Call("createFile", zipIndex))
    /\ \/ /\ ZipThrows(ctx, "createFile")
          /\ UNCHANGED bucket
       \/ /\ bucket' = Append(bucket,
                [id |-> StreamFileId(zipIndex),
                 name |-> StreamZipFilename(eventDoc.event_name, zipIndex),
                 entries |-> archive.entries,
                 permissions |-> OwnerPermissions(currentUserId)])
          /\ Continue(ctx.record)
          /\ UNCHANGED << failedPhotos, i >>
    /\ UNCHANGED << reqVars, listVars, chunkVars, idx, archive, currentZipSizeMB,
                    currentZipFileCount, zipIndex, totalProcessed, createdDownloads,
                    docs, photoFailed >>

\* finalizeAndUploadZip, lines 369-400; then startZip() (line 429) inside the
\* loop, or the final response (lines 470-489) after it
RecordZip(ctx) ==
    /\ variant = "stream"
    /\ pc = ctx.record
    /\ calls' = Append(calls, Call("createDocument", zipIndex))
    /\ \/ /\ ZipThrows(ctx, "createDocument")
          /\ UNCHANGED << docs, createdDownloads, zipIndex, archive, currentZipSizeMB,
                          currentZipFileCount >>
       \/ LET doc == [id |-> Len(docs) + 1,
                      user_id |-> currentUserId,
                      file_id |-> bucket[Len(bucket)].id,
                      file_name |-> StreamZipFilename(eventDoc.event_name, zipIndex),
                      photo_count |-> currentZipFileCount,
                      chunk_index |-> zipIndex,
                      permissions |-> OwnerPermissions(currentUserId)]
              made == Append(createdDownloads,
                             [id |-> doc.id, fileId |-> doc.file_id,
                              filename |-> doc.file_name,
                              photoCount |-> currentZipFileCount])
          IN  /\ docs' = Append(docs, doc)
              /\ createdDownloads' = made
              /\ zipIndex' = zipIndex + 1
              /\ UNCHANGED << failedPhotos, i >>
              /\ IF ctx = InLoop
                 THEN /\ archive' = NewArchive
                      /\ currentZipSizeMB' = 0
                      /\ currentZipFileCount' = 0
                      /\ Continue("download")
                 ELSE /\ UNCHANGED << archive, currentZipSizeMB, currentZipFileCount >>
                      /\ Respond([statusCode |-> 200,
                                  summary |-> Summary(allPhotos, totalProcessed,
                                                      failedPhotos, made),
                                  downloads |-> made,
                                  failures |-> failedPhotos])
    /\ UNCHANGED << reqVars, listVars, chunkVars, idx, totalProcessed, bucket,
                    photoFailed >>

NextStream ==
    \/ ParseStream
    \/ GetEventStream
    \/ ListPageStream
    \/ PhotoStart
    \/ DownloadPhoto
    \/ LoopExit
    \/ \E ctx \in { InLoop, AtEnd } : FinalizeZip(ctx)
    \/ \E ctx \in { InLoop, AtEnd } : UploadZip(ctx)
    \/ \E ctx \in { InLoop, AtEnd } : RecordZip(ctx)

Next == NextMain \/ NextStream

Spec == Init /\ [][Next]_vars

---------------------------------------------------------------------------
(* The listing of part_000 over collections around its photo limit         *)

\* collection sizes: empty, one photo, and around the limit of line 251, up
\* to MaxOverLimit full pages and a half beyond it
StreamListLengths ==
    { 0, 1 } \cup
    { PhotoLimit + p * batchSize + d : p \in 0..MaxOverLimit, d \in { 0, 1, 50 } }

InitListStream ==
    /\ variant = "stream"
    /\ pc = "parse"
    /\ bodyRaw \in BodyKinds
    /\ currentUserId \in { UndefinedStr, Str(Owner) }
    /\ eventDoc = NoDoc
    /\ store \in { Photos([j \in 1..n |-> Undefined]) : n \in StreamListLengths }
    /\ allPhotos = << >>
    /\ offset = 0
    /\ chunks = << >> /\ currentChunk = << >> /\ size = 0 /\ k = 1
    /\ i = 0 /\ idx = 0 /\ archive = NoArchive
    /\ currentZipSizeMB = 0 /\ currentZipFileCount = 0 /\ zipIndex = 0
    /\ totalProcessed = 0 /\ failedPhotos = << >>
    /\ createdDownloads = << >> /\ bucket = << >> /\ docs = << >>
    /\ calls = << >>
    /\ photoFailed = {}
    /\ response = NoResponse
    /\ now = 0 /\ passed = NoIds

NextListStream == ParseStream \/ GetEventStream \/ ListPageStream

SpecListStream == InitListStream /\ [][NextListStream]_vars

---------------------------------------------------------------------------
(* part_003, prepareDownload, lines 5-213                                  *)

\* const MAX_MB = 2048, line 83
MAX_MB_3 == 2048

\* String(eventDoc.user_id) !== String(currentUserId), line 50 (and line 322
\* of main.js, in its second prepareDownload)
NotOwner(u, user) == String(u) # String(user)

\* lines 11-21
Parse3 ==
    /\ variant = "stream3"
    /\ pc = "parse"
    /\ IF bodyRaw = "invalid"
       THEN Respond([statusCode |-> 400, error |-> "Invalid JSON"])
       ELSE IF bodyRaw = "noEventId"
            THEN Respond([statusCode |-> 400, error |-> "Missing eventId"])
            ELSE Continue("getEvent")
    /\ UNCHANGED << reqVars, listVars, chunkVars, procVars, streamVars, outVars,
                    calls, photoFailed >>

\* lines 48-61
GetEvent3 ==
    /\ variant = "stream3"
    /\ pc = "getEvent"
    /\ calls' = Append(calls, Call("getDocument", 0))
    /\ \/ /\ Catch500("getDocument")
          /\ UNCHANGED eventDoc
       \/ \E u \in EventUserIds, name \in EventNames :
            /\ eventDoc' = [found |-> TRUE, user_id |-> u, event_name |-> name]
            /\ IF NotOwner(u, currentUserId)
               THEN Respond([statusCode |-> 403,
                             error |-> "Forbidden - you do not own this event."])
               ELSE Continue("list")
    /\ allPhotos' = << >>
    /\ offset' = 0
    /\ UNCHANGED << reqVars, chunkVars, procVars, streamVars, outVars, photoFailed >>

\* one iteration of the listing loop, lines 63-92, and startZip() of line 167
ListPage3 ==
    /\ variant = "stream3"
    /\ pc = "list"
    /\ calls' = Append(calls, Call("listDocuments", offset))
    /\ \/ /\ Catch500("listDocuments")
          /\ UNCHANGED << allPhotos, offset, i, archive, currentZipSizeMB,
                          currentZipFileCount, zipIndex, createdDownloads >>
       \/ LET page == Page(store, offset, batchSize)
              got == allPhotos \o page
          IN  /\ allPhotos' = got
              /\ offset' = offset + Len(page)
              /\ IF Len(page) # 0
                 THEN /\ Continue("list")
                      /\ UNCHANGED << i, archive, currentZipSizeMB, currentZipFileCount,
                                      zipIndex, createdDownloads >>
                 ELSE IF Len(got) = 0
                      THEN /\ Respond([statusCode |-> 404, error |-> "No photos found"])
                           /\ UNCHANGED << i, archive, currentZipSizeMB,
                                           currentZipFileCount, zipIndex,
                                           createdDownloads >>
                      ELSE /\ Continue("photo")
                           /\ zipIndex' = 1
                           /\ createdDownloads' = << >>
                           /\ archive' = NewArchive
                           /\ currentZipSizeMB' = 0
                           /\ currentZipFileCount' = 0
                           /\ i' = 0
    /\ UNCHANGED << reqVars, eventDoc, chunkVars, idx, totalProcessed, failedPhotos,
                    bucket, docs, photoFailed >>

\* currentZipSizeMB + sizeMB > MAX_MB && currentZipFileCount > 0, line 177
SplitAtPart000Budget(sz, s, n) == Greater(Plus(sz, s), MAX_MB) /\ n > 0
SplitNeeded3(sz, s, n) == Greater(Plus(sz, s), MAX_MB_3) /\ n > 0

\* head of one iteration of  for (const photo of allPhotos), lines 172-180
PhotoStart3 ==
    /\ variant = "stream3"
    /\ pc = "photo"
    /\ i < Len(allPhotos)
    /\ IF SplitNeeded3(currentZipSizeMB, SizeOf(allPhotos[i + 1]), currentZipFileCount)
       THEN Continue("zipFinalize")
       ELSE Continue("download")
    /\ UNCHANGED << reqVars, listVars, chunkVars, procVars, streamVars, outVars, calls,
                    photoFailed >>

\* lines 183-192: there is no handler around the photo, a throw ends the run
DownloadPhoto3 ==
    /\ variant = "stream3"
    /\ pc = "download"
    /\ LET photo == allPhotos[i + 1]
       IN  /\ calls' = Append(calls, Call("getFileDownload", photo.id))
           /\ \E outcome \in { "getFileDownload" } \cup AppendOutcomes(archive) :
                IF outcome = "ok"
                THEN /\ archive' = [archive EXCEPT !.entries = Append(@, photo.id)]
                     /\ currentZipSizeMB' = Plus(currentZipSizeMB, SizeOf(photo))
                     /\ currentZipFileCount' = currentZipFileCount + 1
                     /\ i' = i + 1
                     /\ photoFailed' = photoFailed
                     /\ Continue("photo")
                ELSE /\ photoFailed' = photoFailed \cup { [id |-> photo.id, error |-> outcome] }
                     /\ Catch500(outcome)
                     /\ UNCHANGED << archive, currentZipSizeMB, currentZipFileCount, i >>
    /\ UNCHANGED << reqVars, listVars, chunkVars, idx, zipIndex, totalProcessed,
                    failedPhotos, outVars >>

\* the response of lines 203-208
Response3(made) == [statusCode |-> 200, chunks |-> Len(made), downloadIds |-> made]

\* after the loop, lines 196-208
LoopExit3 ==
    /\ variant = "stream3"
    /\ pc = "photo"
    /\ ~ (i < Len(allPhotos))
    /\ IF currentZipFileCount > 0
       THEN Continue(AtEnd.finalize)
       ELSE Respond(Response3(createdDownloads))
    /\ UNCHANGED << reqVars, listVars, chunkVars, procVars, streamVars, outVars,
                    calls, photoFailed >>

\* finalizeAndUploadZip, lines 115-116
FinalizeZip3(ctx) ==
    /\ variant = "stream3"
    /\ pc = ctx.finalize
    /\ archive' = [archive EXCEPT !.finalized = TRUE]
    /\ \E outcome \in FinalizeOutcomes(archive) :
            IF outcome = "ok" THEN Continue(ctx.upload) ELSE Catch500("finalize")
    /\ UNCHANGED << reqVars, listVars, chunkVars, i, idx, streamVars, outVars, calls,
                    photoFailed >>

\* (eventDoc.event_name || "photos") + (zipIndex > 1 ? `_part_${zipIndex}.zip` : `.zip`)
ZipFilename3(name, n) ==
    [base |-> OrPhotos(name), suffix |-> IF n > 1 THEN << "_part_", n >> ELSE << >>]

\* finalizeAndUploadZip, lines 118-146
UploadZip3(ctx) ==
    /\ variant = "stream3"
    /\ pc = ctx.upload
    /\ calls' = Append(calls, Call("createFile", zipIndex))
    /\ \/ /\ Catch500("createFile")
          /\ UNCHANGED bucket
       \/ /\ bucket' = Append(bucket,
                [id |-> StreamFileId(zipIndex),
                 name |-> ZipFilename3(eventDoc.event_name, zipIndex),
                 entries |-> archive.entries,
                 permissions |-> { Permission("read", currentUserId),
                                   Permission("delete", currentUserId) }])
          /\ Continue(ctx.record)
    /\ UNCHANGED << reqVars, listVars, chunkVars, procVars, streamVars,
                    createdDownloads, docs, photoFailed >>

\* finalizeAndUploadZip, lines 149-161; then startZip() (line 179) inside the
\* loop, or the response (lines 203-208) after it
RecordZip3(ctx) ==
    /\ variant = "stream3"
    /\ pc = ctx.record
    /\ calls' = Append(calls, Call("createDocument", zipIndex))
    /\ \/ /\ Catch500("createDocument")
          /\ UNCHANGED << docs, createdDownloads, zipIndex, archive, currentZipSizeMB,
                          currentZipFileCount >>
       \/ LET doc == [id |-> Len(docs) + 1,
                      user_id |-> currentUserId,
                      file_id |-> bucket[Len(bucket)].id,
                      file_name |-> ZipFilename3(eventDoc.event_name, zipIndex),
                      photo_count |-> currentZipFileCount,
                      chunk_index |-> zipIndex,
                      permissions |-> {}]
              made == Append(createdDownloads, doc.id)
          IN  /\ docs' = Append(docs, doc)
              /\ createdDownloads' = made
              /\ zipIndex' = zipIndex + 1
              /\ IF ctx = InLoop
                 THEN /\ archive' = NewArchive
                      /\ currentZipSizeMB' = 0
                      /\ currentZipFileCount' = 0
                      /\ Continue("download")
                 ELSE /\ UNCHANGED << archive, currentZipSizeMB, currentZipFileCount >>
                      /\ Respond(Response3(made))
    /\ UNCHANGED << reqVars, listVars, chunkVars, i, idx, totalProcessed, failedPhotos,
                    bucket, photoFailed >>

\* file_size attributes: missing, numbers around the budget, not a number
Sizes3 == { Undefined, Num(848), Num(1200), Num(5000), NonNumeric }

Init3 ==
    /\ variant = "stream3"
    /\ pc = "parse"
    /\ bodyRaw \in BodyKinds
    /\ currentUserId \in HeaderUserIds
    /\ eventDoc = NoDoc
    /\ store \in { Photos(sz) : sz \in SeqsUpTo(Sizes3, MaxPhotos) }
    /\ allPhotos = << >>
    /\ offset = 0
    /\ chunks = << >> /\ currentChunk = << >> /\ size = 0 /\ k = 1
    /\ i = 0 /\ idx = 0 /\ archive = NoArchive
    /\ currentZipSizeMB = 0 /\ currentZipFileCount = 0 /\ zipIndex = 0
    /\ totalProcessed = 0 /\ failedPhotos = << >>
    /\ createdDownloads = << >> /\ bucket = << >> /\ docs = << >>
    /\ calls = << >>
    /\ photoFailed = {}
    /\ response = NoResponse
    /\ now = 0 /\ passed = NoIds

Next3 ==
    \/ Parse3
    \/ GetEvent3
    \/ ListPage3
    \/ PhotoStart3
    \/ DownloadPhoto3
    \/ LoopExit3
    \/ \E ctx \in { InLoop, AtEnd } : FinalizeZip3(ctx)
    \/ \E ctx \in { InLoop, AtEnd } : UploadZip3(ctx)
    \/ \E ctx \in { InLoop, AtEnd } : RecordZip3(ctx)

Spec3 == Init3 /\ [][Next3]_vars

\* the chunking loop of main.js (lines 113-130) as a function of the photo list
RECURSIVE ChunkLoop(_, _, _, _)
ChunkLoop(ps, chs, cur, sz) ==
    IF ps = << >>
    THEN IF Len(cur) > 0 THEN CloseChunk(chs, cur) ELSE chs
    ELSE LET s == SizeOf(Head(ps))
             split == SplitNeeded(sz, s, cur)
         IN  ChunkLoop(Tail(ps),
                       IF split THEN CloseChunk(chs, cur) ELSE chs,
                       Append(IF split THEN << >> ELSE cur, Head(ps)),
                       NextSize(sz, s, split))

MainChunks(ps) == ChunkLoop(ps, << >>, << >>, 0)

---------------------------------------------------------------------------
(* Concurrent invocations of main.js: the ids given to createFile          *)

\* `download_${Date.now()}_${i}`, line 195
DownloadFileIdAt(t, n) == << "download", t, n >>

\* what the steps below leave alone
runVars == << variant, pc, bodyRaw, currentUserId, store, listVars, chunkVars,
              procVars, streamVars, outVars, calls, photoFailed, response >>

InitIds == Init /\ variant = "main" /\ bodyRaw = "ok" /\ currentUserId = Str(Owner)
                /\ store = << >>

\* a millisecond passes
Tick ==
    /\ now < MaxClock
    /\ now' = now + 1
    /\ UNCHANGED << passed, runVars >>

\* invocation p reaches line 195 for its next chunk (i counts from 0) and
\* passes the id to createFile (line 210)
CreateFileAt(p) ==
    /\ Len(passed[p]) < MaxRunChunks
    /\ passed' = [passed EXCEPT ![p] = Append(@, DownloadFileIdAt(now, Len(@)))]
    /\ UNCHANGED << now, runVars >>

NextIds ==
    \/ Tick
    \/ \E p \in Invocations : CreateFileAt(p)

SpecIds == InitIds /\ [][NextIds]_vars

---------------------------------------------------------------------------
(* main.js alone, when every awaited call returns or throws                *)

InitMain == Init /\ variant = "main"

\* the function goes on as soon as the call it awaits has returned or thrown
SpecMainFair == InitMain /\ [][NextMain]_vars /\ WF_vars(NextMain)

---------------------------------------------------------------------------
(* The listing of main.js over collections of several pages                *)

\* collection sizes around the page boundaries
ListLengths == { p * batchSize + d : p \in 0..MaxPages, d \in { 0, 1, batchSize - 1 } }

InitList ==
    /\ variant = "main"
    /\ pc = "parse"
    /\ bodyRaw \in BodyKinds
    /\ currentUserId = Str(Owner)
    /\ eventDoc = NoDoc
    /\ store \in { Photos([j \in 1..n |-> Undefined]) : n \in ListLengths }
    /\ allPhotos = << >>
    /\ offset = 0
    /\ chunks = << >> /\ currentChunk = << >> /\ size = 0 /\ k = 1
    /\ i = 0 /\ idx = 0 /\ archive = NoArchive
    /\ currentZipSizeMB = 0 /\ currentZipFileCount = 0 /\ zipIndex = 0
    /\ totalProcessed = 0 /\ failedPhotos = << >>
    /\ createdDownloads = << >> /\ bucket = << >> /\ docs = << >>
    /\ calls = << >>
    /\ photoFailed = {}
    /\ response = NoResponse
    /\ now = 0 /\ passed = NoIds

NextList == Parse \/ GetEvent \/ ListPage

SpecList == InitList /\ [][NextList]_vars

---------------------------------------------------------------------------
(* Properties of the chunking loop                                         *)

\* the chunking loop has just finished
Partitioned == variant = "main" /\ pc = "loop" /\ i = 0

\* the declared size a claim speaks of: 0 when file_size is 0 or missing
DeclaredSize(p) == IF p.file_size.t = "number" THEN p.file_size.v ELSE 0

RECURSIVE DeclaredSum(_)
DeclaredSum(ps) == IF ps = << >> THEN 0 ELSE DeclaredSize(Head(ps)) + DeclaredSum(Tail(ps))

ChunkIds == [c \in 1..Len(chunks) |-> Ids(chunks[c])]

\* C1: the chunks, concatenated in order, are exactly allPhotos: no photo is
\* lost, duplicated or reordered.
C1_ChunksReproduceInput == Partitioned => Concat(chunks) = allPhotos

C1_Witness == Partitioned /\ Len(chunks) >= 2 /\ Len(allPhotos) >= 3

\* C2: every chunk's sizes sum to at most MAX_CHUNK_MB, unless the chunk is a
\* single photo whose own size exceeds the budget.
C2_ChunkWithinBudget ==
    Partitioned =>
        \A c \in 1..Len(chunks) :
            \/ DeclaredSum(chunks[c]) <= MAX_CHUNK_MB
            \/ Len(chunks[c]) = 1 /\ DeclaredSize(chunks[c][1]) > MAX_CHUNK_MB

C2_Witness ==
    /\ Partitioned
    /\ \E c \in 1..Len(chunks) :
            Len(chunks[c]) >= 2 /\ DeclaredSum(chunks[c]) = MAX_CHUNK_MB
    /\ \E c \in 1..Len(chunks) :
            Len(chunks[c]) = 1 /\ DeclaredSize(chunks[c][1]) > MAX_CHUNK_MB

\* C3: a photo whose size exceeds MAX_CHUNK_MB is alone in its chunk, wherever
\* it sits in the input.
C3_OversizedIsSingleton ==
    Partitioned =>
        \A c \in 1..Len(chunks) : \A j \in 1..Len(chunks[c]) :
            DeclaredSize(chunks[c][j]) > MAX_CHUNK_MB => Len(chunks[c]) = 1

\* an oversized photo in the middle of the list, with neighbours on both sides
C3_Witness ==
    /\ Partitioned
    /\ \E j \in 2..(Len(allPhotos) - 1) :
            /\ DeclaredSize(allPhotos[j]) > MAX_CHUNK_MB
            /\ DeclaredSize(allPhotos[j - 1]) <= MAX_CHUNK_MB
            /\ DeclaredSize(allPhotos[j + 1]) = 0
            /\ \E c \in 1..Len(chunks) : chunks[c] = << allPhotos[j] >>

\* the loop is at a photo whose file_size is 0 or missing, and handles it
ZeroSizeStep ==
    /\ variant = "main" /\ pc = "chunk" /\ k <= Len(allPhotos)
    /\ allPhotos[k].file_size \in { Undefined, Num(0) }
    /\ k' = k + 1

\* C4 as stated: reaching a photo of size 0 (or of no size) never closes the
\* open chunk, and the photo is appended to the chunk that was open.
C4_ZeroNeverCloses ==
    [][ZeroSizeStep =>
            /\ chunks' = chunks
            /\ currentChunk' = Append(currentChunk, allPhotos[k])]_vars

\* C4 as amended: such a photo is counted as size 0; reaching it closes the
\* open chunk only when that chunk is a single photo whose own size already
\* exceeds MAX_CHUNK_MB, and the photo then starts the next chunk; in every
\* other case the open chunk stays open and the photo is appended to it.
C4_ZeroClosesOnlyOversized ==
    [][ZeroSizeStep =>
            LET p == allPhotos[k]
                over == DeclaredSum(currentChunk) > MAX_CHUNK_MB
            IN  /\ SizeOf(p) = 0
                /\ over => /\ Len(currentChunk) = 1
                           /\ chunks' = Append(chunks, currentChunk)
                           /\ currentChunk' = << p >>
                           /\ size' = 0
                /\ ~ over => /\ chunks' = chunks
                             /\ currentChunk' = Append(currentChunk, p)
                             /\ size' = size]_vars

\* a photo of no size joined an open chunk, and a later one followed an
\* oversized photo and started a chunk of its own
C4_Witness ==
    /\ variant = "main" /\ pc = "chunk" /\ k > 4
    /\ allPhotos[2].file_size = Undefined
    /\ Len(chunks) >= 1 /\ Len(chunks[1]) = 2 /\ chunks[1][2] = allPhotos[2]
    /\ DeclaredSize(allPhotos[3]) > MAX_CHUNK_MB
    /\ allPhotos[4].file_size = Num(0)
    /\ currentChunk = << allPhotos[4] >>

\* the greedy in-order reference: the open chunk (photo count, running size)
\* after photos 1..j
RECURSIVE RefOpen(_, _)
RefOpen(ps, j) ==
    IF j = 0 THEN [n |-> 0, sz |-> 0]
    ELSE LET o == RefOpen(ps, j - 1)
             s == DeclaredSize(ps[j])
         IN  IF o.n > 0 /\ o.sz + s > MAX_CHUNK_MB
             THEN [n |-> 1, sz |-> s]
             ELSE [n |-> o.n + 1, sz |-> o.sz + s]

\* photo j starts a new chunk in the reference
RefStartsNew(ps, j) ==
    LET o == RefOpen(ps, j - 1)
    IN  o.n > 0 /\ o.sz + DeclaredSize(ps[j]) > MAX_CHUNK_MB

\* the positions at which the chunks of the code start
ChunkStarts ==
    { 1 + Len(Concat(SubSeq(chunks, 1, c - 1))) : c \in 1..Len(chunks) }

\* C5: the loop equals the greedy in-order reference: photo j starts a new
\* chunk exactly when the open chunk is non-empty and its running size plus
\* size(j) exceeds the budget; sizes [1000, 1200, 100] give [[1],[2,3]].
C5_GreedyReference ==
    Partitioned =>
        /\ Concat(chunks) = allPhotos
        /\ \A c \in 1..Len(chunks) : chunks[c] # << >>
        /\ \A j \in 1..Len(allPhotos) :
                j \in ChunkStarts <=> (j = 1 \/ RefStartsNew(allPhotos, j))
        /\ [j \in 1..Len(allPhotos) |-> allPhotos[j].file_size]
                = << Num(1000), Num(1200), Num(100) >>
            => ChunkIds = << <<1>>, <<2, 3>> >>

C5_Witness ==
    /\ Partitioned
    /\ [j \in 1..Len(allPhotos) |-> allPhotos[j].file_size]
            = << Num(1000), Num(1200), Num(100) >>
    /\ ChunkIds = << <<1>>, <<2, 3>> >>

---------------------------------------------------------------------------
(* Properties of the pipeline                                              *)

Made(op, arg) == \E n \in 1..Len(calls) : calls[n] = Call(op, arg)
FailedIds == { f.id : f \in photoFailed }
OnlyOwnershipCheck == calls = << Call("getDocument", 0) >>
NoArchiveWork ==
    /\ allPhotos = << >> /\ chunks = << >> /\ currentChunk = << >>
    /\ bucket = << >> /\ docs = << >> /\ createdDownloads = << >>

\* C6 as stated: when the event's user_id differs from the caller's
\* x-appwrite-user-id the invocation ends with 403 and getDocument is the only
\* remote call made.
C6_DifferentUserForbidden ==
    (variant = "main" /\ eventDoc.found /\ eventDoc.user_id # currentUserId)
        => /\ OnlyOwnershipCheck
           /\ pc = "done" => response.statusCode = 403

\* the event's user_id as a string without surrounding blanks (a missing
\* user_id being the empty string) is not the caller's header value
OwnerMismatch ==
    \/ currentUserId.t = "undefined"
    \/ currentUserId.s #
            Trim(IF eventDoc.user_id.t = "undefined" THEN << >> ELSE eventDoc.user_id.s)

\* C6 as amended: when the event's user_id, taken as a string and trimmed of
\* surrounding whitespace, is not the caller's x-appwrite-user-id, the
\* invocation ends with 403, getDocument is the only remote call made and no
\* chunk is processed.
C6_MismatchForbidden ==
    /\ (variant = "main" /\ eventDoc.found /\ OwnerMismatch)
            => /\ pc = "done"
               /\ response.statusCode = 403
               /\ OnlyOwnershipCheck
               /\ NoArchiveWork
    /\ (variant = "main" /\ response.statusCode = 403)
            => OnlyOwnershipCheck /\ NoArchiveWork

\* another user's event, with photos in it, was refused
C6_Witness ==
    /\ variant = "main" /\ pc = "done" /\ response.statusCode = 403
    /\ eventDoc.user_id = Str(Owner) /\ currentUserId = Str(<<"u", "2">>)
    /\ Len(store) > 0

\* every photo of chunk c was fetched and failed
AllFailed(c) == \A j \in 1..Len(chunks[c]) : chunks[c][j].id \in FailedIds

\* C7: if every photo of a chunk fails to download, no createFile and no
\* createDocument call is made for that chunk, and the failures of its photos
\* appear in the final response payload.
C7_FailedChunkNotUploaded ==
    variant = "main" =>
        \A c \in 1..Len(chunks) :
            AllFailed(c) =>
                /\ ~ Made("createFile", c)
                /\ ~ Made("createDocument", c)
                /\ response.statusCode = 200 =>
                        /\ "failures" \in DOMAIN response
                        /\ \A j \in 1..Len(chunks[c]) :
                                \E n \in 1..Len(response.failures) :
                                    response.failures[n].id = chunks[c][j].id

GroupErrors == { "finalize", "createFile", "createDocument" }

\* C8: when finalizing, uploading or recording fails for chunk i, only that
\* chunk is abandoned: the chunks after it are still built, uploaded and
\* recorded (here: once the invocation has ended, createFile was called for
\* each of them).
C8_GroupFailureIsolated ==
    (variant = "main" /\ pc = "done" /\ response.statusCode = 500
        /\ response.error \in GroupErrors)
        => \A c \in (i + 2)..Len(chunks) :
                Made("createFile", c) /\ Made("createDocument", c)

\* a step in which the fetch or the append of one photo throws
PhotoThrows == photoFailed' # photoFailed

\* C9: a failure of getFileDownload or of appending one photo aborts neither
\* the chunk nor the invocation: the step ends at the next photo of the same
\* archive with no response given, and (main.js) when the chunk is finalized
\* every photo of it was fetched and every photo that did not fail is in the
\* archive, in order.
C9_PhotoFailureIsolated ==
    /\ [][PhotoThrows =>
            /\ response' = NoResponse
            /\ archive' = archive
            /\ variant = "main" =>
                    /\ i' = i
                    /\ idx' = idx + 1
                    /\ pc' = IF idx < Len(chunks[i + 1]) THEN "fetch" ELSE "finalize"
            /\ variant = "stream" =>
                    /\ i' = i + 1
                    /\ pc' = "photo"
                    /\ currentZipFileCount' = currentZipFileCount]_vars
    /\ [](variant = "main" /\ pc = "finalize" =>
            /\ \A j \in 1..Len(chunks[i + 1]) :
                    Made("getFileDownload", chunks[i + 1][j].id)
            /\ archive.entries =
                    SelectSeq(Ids(chunks[i + 1]), LAMBDA x : x \notin FailedIds))

\* a photo failed, a later photo of the same chunk is in the uploaded archive,
\* and the run ended with the 200 response
C9_Witness ==
    /\ variant = "main" /\ response.statusCode = 200
    /\ \E c \in 1..Len(chunks) : \E a, b \in 1..Len(chunks[c]) :
            /\ a < b
            /\ chunks[c][a].id \in FailedIds
            /\ c <= Len(bucket)
            /\ \E n \in 1..Len(bucket[c].entries) :
                    bucket[c].entries[n] = chunks[c][b].id

\* C10: the failures list of a 200 response enumerates exactly the photos
\* whose own fetch or append failed: each of them once, with its error, and
\* no other photo.
C10_FailuresExact ==
    (variant = "stream" /\ response.statusCode = 200)
        => /\ { response.failures[n] : n \in 1..Len(response.failures) } = photoFailed
           /\ Len(response.failures) = Cardinality(photoFailed)
           /\ Cardinality(FailedIds) = Cardinality(photoFailed)

\* a 200 response that lists a failed photo beside an archived one
C10_Witness ==
    /\ variant = "stream" /\ response.statusCode = 200
    /\ Len(response.failures) >= 1
    /\ Len(response.downloads) >= 1
    /\ \E f \in photoFailed : f.error = "getFileDownload"
    /\ \E f \in photoFailed : f.error = "append"

\* C11: with more than one chunk every archive's file name carries the suffix
\* _part_<i>, i its 1-based ordinal, so the names of one invocation are
\* pairwise distinct; with exactly one chunk the name carries no suffix. The
\* catalog record of a chunk carries the name of its archive.
C11_FilenameSuffix ==
    variant = "main" =>
        /\ \A n \in 1..Len(bucket) :
                /\ bucket[n].name.base = OrPhotos(eventDoc.event_name)
                /\ Len(chunks) > 1 => bucket[n].name.suffix = << "_part_", n >>
                /\ Len(chunks) = 1 => bucket[n].name.suffix = << >>
        /\ \A a, b \in 1..Len(bucket) : a # b => bucket[a].name # bucket[b].name
        /\ \A d \in 1..Len(docs) : docs[d].file_name = bucket[d].name

\* three archives with three suffixed names
C11_Witness ==
    /\ variant = "main" /\ response.statusCode = 200
    /\ Len(chunks) = 3 /\ Len(bucket) = 3
    /\ bucket[1].name.suffix = << "_part_", 1 >>
    /\ bucket[3].name.suffix = << "_part_", 3 >>
    /\ eventDoc.event_name # UndefinedStr

\* the remote calls that read photo bytes or write an archive or a record
ArchiveCalls == { n \in 1..Len(calls) :
                    calls[n].op \in { "getFileDownload", "createFile", "createDocument" } }

\* the listing has returned (it did not throw) and is over
Listed ==
    /\ variant = "main"
    /\ \E n \in 1..Len(calls) : calls[n].op = "listDocuments"
    /\ pc # "list"
    /\ ~ (response.statusCode = 500 /\ response.error = "listDocuments")

\* C12: when the listing comes back empty the invocation ends with 404 'No
\* photos found'; the chunking loop is never entered and no getFileDownload,
\* createFile or createDocument call is made.
C12_EmptyListingNotFound ==
    /\ [] ((Listed /\ store = << >>) =>
                /\ pc = "done"
                /\ response = [statusCode |-> 404, error |-> "No photos found"]
                /\ ArchiveCalls = {}
                /\ NoArchiveWork)
    /\ [] ((variant = "main" /\ response.statusCode = 404) =>
                store = << >> /\ ArchiveCalls = {} /\ NoArchiveWork)
    /\ [][(variant = "main" /\ store = << >>) => pc' # "chunk"]_vars

C12_Witness ==
    /\ Listed /\ store = << >> /\ response.statusCode = 404
    /\ calls = << Call("getDocument", 0), Call("listDocuments", 0) >>

CallsOf(op, arg) == { n \in 1..Len(calls) : calls[n] = Call(op, arg) }
CallsTo(op) == { n \in 1..Len(calls) : calls[n].op = op }

\* C13: a run that ends with 200 over N >= 1 chunks has made exactly N
\* createFile and N createDocument calls, one of each per chunk, and answers
\* totalChunks = N with the N record ids in chunk order; a single photo of size
\* 5000 gives one chunk, one archive and one record.
C13_OnePerChunk ==
    (variant = "main" /\ response.statusCode = 200) =>
        LET N == Len(chunks)
        IN  /\ N >= 1
            /\ Cardinality(CallsTo("createFile")) = N
            /\ Cardinality(CallsTo("createDocument")) = N
            /\ \A c \in 1..N :
                    /\ Cardinality(CallsOf("createFile", c)) = 1
                    /\ Cardinality(CallsOf("createDocument", c)) = 1
            /\ Len(bucket) = N /\ Len(docs) = N
            /\ response.totalChunks = N
            /\ Len(response.downloadIds) = N
            /\ \A c \in 1..N :
                    /\ docs[c].chunk_index = c
                    /\ response.downloadIds[c] = docs[c].id
            /\ (Len(allPhotos) = 1 /\ allPhotos[1].file_size = Num(5000)) => N = 1

\* every remote call succeeded, several chunks, one of them the photo of 5000
C13_Witness ==
    /\ variant = "main" /\ response.statusCode = 200 /\ photoFailed = {}
    /\ Len(chunks) >= 2 /\ Len(response.downloadIds) = Len(chunks)
    /\ \E c \in 1..Len(chunks) :
            Len(chunks[c]) = 1 /\ chunks[c][1].file_size = Num(5000)

\* the chunk a photo was put in
IdSet(ps) == { ps[j].id : j \in 1..Len(ps) }
ChunkOf(id) == CHOOSE c \in 1..Len(chunks) : id \in IdSet(chunks[c])

\* position of a call in the order chunk by chunk, fetches before createFile
\* before createDocument; calls made before the chunks exist come first
Stage(call) ==
    CASE call.op = "getFileDownload" -> 3 * ChunkOf(call.arg)
      [] call.op = "createFile"      -> 3 * call.arg + 1
      [] call.op = "createDocument"  -> 3 * call.arg + 2
      [] OTHER                       -> 0

\* C14: chunks are processed one at a time in ordinal order, each in the
\* order fetch and append every photo, finalize, createFile, createDocument;
\* nothing is fetched or uploaded for a chunk before the createDocument of the
\* chunk before it has returned.
C14_SequentialChunks ==
    variant = "main" =>
        /\ \A n \in 1..(Len(calls) - 1) :
                LET a == calls[n]
                    b == calls[n + 1]
                IN  /\ Stage(a) <= Stage(b)
                    /\ a.op = "getFileDownload" /\ b.op = "getFileDownload"
                            /\ Stage(a) = Stage(b)
                            => a.arg < b.arg
                    /\ a.op # "getFileDownload" /\ b.op # "listDocuments"
                            => Stage(a) < Stage(b)
        /\ \A n \in ArchiveCalls :
                LET c == IF calls[n].op = "getFileDownload"
                         THEN ChunkOf(calls[n].arg) ELSE calls[n].arg
                IN  /\ c > 1 /\ calls[n].op # "createDocument" =>
                            Made("createDocument", c - 1) /\ Len(docs) >= c - 1
                    /\ calls[n].op = "createFile" =>
                            \A id \in IdSet(chunks[c]) : Made("getFileDownload", id)
                    /\ calls[n].op = "createDocument" =>
                            Made("createFile", c) /\ Len(bucket) >= c
        /\ pc = "fetch" => ~ archive.finalized
        /\ pc \in { "upload", "record" } => archive.finalized

\* the second chunk is being recorded after the first was
C14_Witness ==
    /\ variant = "main" /\ Len(chunks) >= 2 /\ Len(chunks[1]) >= 2
    /\ Made("createDocument", 2) /\ Len(docs) = 2

\* C15: every archive uploaded and every catalog record created carries read,
\* update and delete rights for the calling user and for no one else.
C15_OwnerOnlyPermissions ==
    variant = "main" =>
        /\ \A n \in 1..Len(bucket) : bucket[n].permissions = OwnerPermissions(currentUserId)
        /\ \A n \in 1..Len(docs) : docs[n].permissions = OwnerPermissions(currentUserId)

LookupThrows == variant = "main" /\ pc = "getEvent" /\ ~ eventDoc'.found

\* the step is a page request that threw: photos were there to be listed at
\* this offset and none arrived
PageThrows == variant = "main" /\ pc = "list" /\ offset < Len(store) /\ allPhotos' = allPhotos

RecordFailed ==
    /\ variant = "main" /\ pc = "done"
    /\ response = [statusCode |-> 500, error |-> "createDocument"]

\* C18: when createDocument fails after the chunk's createFile succeeded,
\* nothing is deleted and the record is not retried: the archive stays in the
\* bucket and no catalog record refers to it.
C18_OrphanArchiveStays ==
    /\ [] (RecordFailed =>
            /\ calls[Len(calls)] = Call("createDocument", i + 1)
            /\ Cardinality(CallsOf("createDocument", i + 1)) = 1
            /\ \A n \in 1..Len(calls) :
                    calls[n].op \in { "getDocument", "listDocuments", "getFileDownload",
                                      "createFile", "createDocument" }
            /\ Len(bucket) = i + 1
            /\ bucket[i + 1].id = DownloadFileId(i)
            /\ Len(docs) = i
            /\ \A d \in 1..Len(docs) : docs[d].file_id # bucket[i + 1].id)
    /\ [][(variant = "main" /\ pc = "record" /\ docs' = docs)
                => bucket' = bucket /\ pc' = "done"]_vars

\* the second chunk's record fails after the first chunk went through
C18_Witness ==
    /\ RecordFailed /\ i = 1
    /\ Len(bucket) = 2 /\ Len(docs) = 1

RECURSIVE SumPhotoCount(_)
SumPhotoCount(ds) == IF ds = << >> THEN 0 ELSE Head(ds).photoCount + SumPhotoCount(Tail(ds))

\* C19: in every 200 response of the streaming function, totalPhotos =
\* processedPhotos + failedPhotos, failedPhotos is the length of the failures
\* list, and processedPhotos is the sum of photoCount over the downloads.
C19_SummaryAddsUp ==
    (variant = "stream" /\ response.statusCode = 200) =>
        LET s == response.summary
        IN  /\ s.totalPhotos = s.processedPhotos + s.failedPhotos
            /\ s.failedPhotos = Len(response.failures)
            /\ s.processedPhotos = SumPhotoCount(response.downloads)

\* two archives and a failed photo
C19_Witness ==
    /\ variant = "stream" /\ response.statusCode = 200
    /\ Len(response.downloads) >= 2
    /\ Len(response.failures) >= 1
    /\ response.summary.processedPhotos >= 2

\* C20: at every point there are at most as many catalog records as uploaded
\* archives, and every record's file_id is the id of the archive that
\* createFile stored for the record's chunk earlier in the run.
C20_RecordsFollowUploads ==
    variant = "main" =>
        /\ Len(docs) <= Len(bucket)
        /\ \A a, b \in 1..Len(bucket) : a # b => bucket[a].id # bucket[b].id
        /\ \A c \in 1..Len(bucket) :
                /\ bucket[c].id = DownloadFileId(c - 1)
                /\ \A n \in 1..Len(bucket[c].entries) : bucket[c].entries[n] \in IdSet(chunks[c])
        /\ \A d \in 1..Len(docs) :
                LET c == docs[d].chunk_index
                IN  /\ c = d
                    /\ docs[d].file_id = bucket[c].id
                    /\ \E n, m \in 1..Len(calls) :
                            /\ n < m
                            /\ calls[n] = Call("createFile", c)
                            /\ calls[m] = Call("createDocument", c)

\* the third archive is uploaded and not yet recorded
C20_Witness ==
    /\ variant = "main" /\ pc = "record"
    /\ Len(bucket) = 3 /\ Len(docs) = 2
    /\ docs[2].file_id = bucket[2].id

\* C21: the catalog records of one invocation carry chunk_index 1, 2, ..., k
\* in creation order, without gap or repeat, and each carries total_chunks
\* equal to the number of chunks the chunking loop produced.
C21_ContiguousChunkIndex ==
    variant = "main" =>
        \A d \in 1..Len(docs) :
            /\ docs[d].chunk_index = d
            /\ docs[d].total_chunks = Len(chunks)

C21_Witness ==
    /\ variant = "main" /\ Len(chunks) = 3 /\ Len(docs) = 3
    /\ docs[3].chunk_index = 3 /\ docs[1].total_chunks = 3

\* C22: the photo_count of a chunk's catalog record is the number of photos
\* that were fetched and appended to the chunk's archive.
C22_PhotoCountIsAppended ==
    variant = "main" =>
        \A d \in 1..Len(docs) : docs[d].photo_count = Len(bucket[d].entries)

\* the uploaded archive a record points at
FileOf(doc) == CHOOSE f \in { bucket[n] : n \in 1..Len(bucket) } : f.id = doc.file_id

\* finalizeAndUploadZip is running
InFinalizeAndUpload ==
    pc \in { InLoop.finalize, InLoop.upload, InLoop.record,
             AtEnd.finalize, AtEnd.upload, AtEnd.record }

\* C23: no empty archive is uploaded: finalizeAndUploadZip runs, and createFile
\* is called, with currentZipFileCount >= 1; a photo whose fetch or append
\* failed adds nothing to the running size and count; each record's
\* photo_count is the number of photos appended since the last startZip.
C23_NoEmptyArchive ==
    /\ [] (variant = "stream" =>
            /\ InFinalizeAndUpload => currentZipFileCount >= 1
            /\ archive # NoArchive => currentZipFileCount = Len(archive.entries)
            /\ \A n \in 1..Len(bucket) : Len(bucket[n].entries) >= 1
            /\ \A d \in 1..Len(docs) :
                    /\ docs[d].photo_count >= 1
                    /\ docs[d].photo_count = Len(FileOf(docs[d]).entries))
    /\ [][(variant = "stream" /\ pc = "download" /\ photoFailed' # photoFailed)
            => UNCHANGED << currentZipSizeMB, currentZipFileCount, archive >>]_vars

\* an oversized first photo, a failed photo, and two archives uploaded
C23_Witness ==
    /\ variant = "stream" /\ response.statusCode = 200
    /\ allPhotos[1].file_size = Num(5000)
    /\ photoFailed # {}
    /\ Len(bucket) = 2 /\ Len(docs) = 2

\* C24: when an invocation of the streaming function produces more than one
\* archive, every archive's file name carries its ordinal; the name without
\* suffix is used only when a single archive is produced.
C24_StreamSuffixWhenSeveral ==
    (variant = "stream" /\ Len(bucket) > 1) =>
        \A n \in 1..Len(bucket) : bucket[n].name.suffix = << "_part", n >>

\* the step is a failure of finalizeAndUploadZip inside the photo loop: the
\* function was at one of its awaits and did not get past it
ZipFailsInLoop ==
    /\ variant = "stream"
    /\ pc \in { InLoop.finalize, InLoop.upload, InLoop.record }
    /\ pc' \notin { InLoop.upload, InLoop.record, "download" }

ZipErrors == { "finalize", "createFile", "createDocument" }

\* C27: a failure of finalizeAndUploadZip called from inside the photo loop is
\* taken by the per-photo handler: it is recorded in failedPhotos under the id
\* of the photo that triggered the split, that photo is never fetched or
\* appended, startZip is not called, and the loop goes on with the next photo.
C27_InLoopZipFailureAbsorbed ==
    /\ [][ZipFailsInLoop =>
            /\ pc' = "photo"
            /\ response' = response
            /\ i' = i + 1
            /\ Len(failedPhotos') = Len(failedPhotos) + 1
            /\ failedPhotos'[Len(failedPhotos')].id = allPhotos[i + 1].id
            /\ failedPhotos'[Len(failedPhotos')].error \in ZipErrors
            /\ SubSeq(failedPhotos', 1, Len(failedPhotos)) = failedPhotos
            /\ archive'.entries = archive.entries
            /\ archive'.finalized
            /\ UNCHANGED << currentZipSizeMB, currentZipFileCount, zipIndex >>]_vars
    /\ [] (variant = "stream" =>
            \A n \in 1..Len(failedPhotos) :
                failedPhotos[n].error \in ZipErrors =>
                    /\ ~ Made("getFileDownload", failedPhotos[n].id)
                    /\ archive # NoArchive
                    /\ \A e \in 1..Len(archive.entries) :
                            archive.entries[e] # failedPhotos[n].id
                    /\ \A b \in 1..Len(bucket) : \A e \in 1..Len(bucket[b].entries) :
                            bucket[b].entries[e] # failedPhotos[n].id)

\* createFile failed while closing the first archive, and the loop took the
\* photo after the one that triggered the split
C27_Witness ==
    /\ variant = "stream" /\ pc = "photo" /\ i = 2 /\ Len(allPhotos) = 3
    /\ failedPhotos = << [id |-> allPhotos[2].id, error |-> "createFile"] >>
    /\ response = NoResponse

\* the offsets of the listing requests, in request order
RECURSIVE ListOffsets(_)
ListOffsets(cs) ==
    IF cs = << >> THEN << >>
    ELSE IF Head(cs).op = "listDocuments"
         THEN << Head(cs).arg >> \o ListOffsets(Tail(cs))
         ELSE ListOffsets(Tail(cs))

\* C25: the listing loop requests pages at offsets that grow by the length of
\* the page before, appends every page to allPhotos in request order, and
\* stops after the first page that is empty or shorter than batchSize: no
\* listing request follows that page.
C25_ListingPagination ==
    /\ [] (variant = "main" =>
            LET offs == ListOffsets(calls)
            IN  /\ offs # << >> => offs[1] = 0
                /\ \A n \in 1..(Len(offs) - 1) :
                        /\ offs[n + 1] = offs[n] + Len(Page(store, offs[n], batchSize))
                        /\ Len(Page(store, offs[n], batchSize)) = batchSize
                /\ offset = Len(allPhotos)
                /\ allPhotos = SubSeq(store, 1, offset)
                /\ Listed =>
                        /\ Len(Page(store, offs[Len(offs)], batchSize)) < batchSize
                        /\ allPhotos = store)
    /\ [][(variant = "main" /\ pc = "list"
                /\ Len(Page(store, offset, batchSize)) < batchSize)
            => pc' # "list"]_vars

\* three requests, the third page short
C25_Witness ==
    /\ Listed /\ pc = "chunk"
    /\ ListOffsets(calls) = << 0, batchSize, 2 * batchSize >>
    /\ Len(allPhotos) = 2 * batchSize + 1

StatusCodes == { 400, 403, 404, 200, 500 }

C28_NoHeaderNeverPasses ==
    (variant = "stream3" /\ currentUserId = UndefinedStr) =>
        /\ CallsTo("listDocuments") = {}
        /\ ArchiveCalls = {}
        /\ bucket = << >> /\ docs = << >>
        /\ (eventDoc.found /\ pc = "done") => response.statusCode = 403

\* C29: concurrent invocations never pass the same file id to createFile:
\* the ids are distinct across invocations and across the chunks of one
\* invocation.
C29_FileIdsUnique ==
    /\ \A p, q \in Invocations : \A a \in 1..Len(passed[p]), b \in 1..Len(passed[q]) :
            p # q => passed[p][a] # passed[q][b]
    /\ \A p \in Invocations : \A a, b \in 1..Len(passed[p]) :
            a # b => passed[p][a] # passed[p][b]

\* C30: when every call succeeds, the streaming function of part_003 makes
\* the archives that the chunking loop of main.js plans for the same photo
\* list: as many catalog records, with the same photo_count and chunk_index,
\* in the same order, each archive holding the photos of its chunk.
C30_StreamMatchesChunking ==
    (variant = "stream3" /\ response.statusCode = 200) =>
        LET planned == MainChunks(allPhotos)
        IN  /\ Len(docs) = Len(planned)
            /\ Len(bucket) = Len(planned)
            /\ \A d \in 1..Len(docs) :
                    /\ docs[d].chunk_index = d
                    /\ docs[d].photo_count = Len(planned[d])
                    /\ bucket[d].entries = Ids(planned[d])

\* two photos that fill the budget exactly share an archive, a third opens
\* the second one
C30_Witness ==
    /\ variant = "stream3" /\ response.statusCode = 200
    /\ Len(allPhotos) = 3
    /\ allPhotos[1].file_size = Num(848) /\ allPhotos[2].file_size = Num(1200)
    /\ Len(docs) = 2 /\ docs[1].photo_count = 2 /\ docs[2].chunk_index = 2

\* the listing loop of part_000 is over
StreamListed == variant = "stream" /\ pc \notin { "parse", "getEvent", "list" }

\* C31: the listing loop of part_000 enforces a limit of 10,000 photos:
\* allPhotos holds at most 10,000 photos when the loop has exited, and the
\* loop exits even when the collection has further non-empty pages.
C31_PhotoLimitEnforced ==
    /\ StreamListed => Len(allPhotos) <= PhotoLimit
    /\ (variant = "stream" /\ pc = "list") => offset <= PhotoLimit

\* the photo the chunking loop of main.js takes next would bring the numeric
\* sizes of the open chunk over the budget
OverBudgetNext ==
    /\ variant = "main" /\ pc = "chunk" /\ k <= Len(allPhotos)
    /\ Len(currentChunk) > 0
    /\ DeclaredSum(currentChunk) + DeclaredSize(allPhotos[k]) > MAX_CHUNK_MB

\* C32: the budget bound on chunks of several photos holds also when some
\* file_size cannot be parsed: every chunk of two or more photos has numeric
\* sizes summing to at most MAX_CHUNK_MB, and a photo that would bring the open
\* chunk over the budget triggers a split, whatever sizes came before it.
C32_BudgetHoldsWithNaN ==
    /\ Partitioned =>
           \A c \in 1..Len(chunks) :
               Len(chunks[c]) >= 2 => DeclaredSum(chunks[c]) <= MAX_CHUNK_MB
    /\ OverBudgetNext => SplitNeeded(size, SizeOf(allPhotos[k]), currentChunk)

============================================================================
